---- MODULE Spec2Model ----
(***************************************************************************)
(* Earthquake analytics dashboard: the tabular pipelines of the pages      *)
(* (load, filter, sample, sequence) as a state machine.                    *)
(*                                                                         *)
(* A table (DataFrame) is a sequence of rows; a row is a record whose      *)
(* field id is the row's identity (its line in merged_output.csv).         *)
(* Timestamps are seconds since 2020-01-01 00:00:00; a calendar day is     *)
(* the number of whole days since 2020-01-01.                              *)
(***************************************************************************)
EXTENDS Integers, Sequences, FiniteSets, TLC

\* ------------------------------------------------------------------------
\* Bounds of the model
\* ------------------------------------------------------------------------

\* Largest number of lines of merged_output.csv that is explored.
MaxRows == 3

\* The same for the Mapping page, which takes the last event in time out of
\* the table before it filters: one line more leaves it as many events.
MaxMappingRows == 4

\* Most widgets a visitor moves away from their defaults in one run.
MaxChanged == 2

\* Largest number of lines of a file with cells of the date or the time
\* that are empty or do not parse.
MaxRawRows == 2

\* Largest number of lines of a file whose header may lack a column.
MaxSchemaRows == 2

\* Largest number of hours between two events, either way.
MaxHours == 60

\* Largest number of selected years, and of earthquakes of one year.
MaxYears == 2
MaxTotal == 15

\* Largest number of selected provinces of the density plot, and of events
\* of one of them.
MaxDensityProvinces == 2
MaxGroupSize == 7

\* Largest number of rows of the table of the ripple animation.
MaxAnimated == 12

\* The months of a year in the monthly analysis, and the events of a month.
MaxMonths == 2
MaxMonthEvents == 2

\* The "Max Records" and "Maximum Points per Province" values explored go
\* up to this one (the widgets start at 1000 and 100, for files of
\* thousands of lines).
MaxCap == 2

\* ------------------------------------------------------------------------
\* Values
\* ------------------------------------------------------------------------

\* A numeric or datetime cell that failed to parse (errors="coerce").
NaN == -1

\* A missing text cell.
NULL == "NaN"

\* Python's None, the first option of a select box.
None == "None"

\* NaN as a fraction num / den.
NaNFraction == [num |-> 0, den |-> 0]

SecondsPerHour == 3600
SecondsPerDay == 86400

\* The lines a file is made of.  DATE is the day of the DATE cell (NaN when
\* it does not parse), CLOCK the seconds into the day of the TIME cell (NaN
\* when the cell is empty): 0 = 00:00:00, 43200 = 12:00:00.
EventPool ==
  << [PROVINCE |-> "A",  AREA |-> "a1", CATEGORY |-> "X", DATE |-> 0,
      CLOCK |-> 0,       MAGNITUDE |-> 5,   LATITUDE |-> 10,
      LONGITUDE |-> 120],
     [PROVINCE |-> "A",  AREA |-> "a2", CATEGORY |-> "Y", DATE |-> 1,
      CLOCK |-> 0,       MAGNITUDE |-> 6,   LATITUDE |-> 11,
      LONGITUDE |-> 121],
     [PROVINCE |-> "B",  AREA |-> "b1", CATEGORY |-> "X", DATE |-> 0,
      CLOCK |-> 0,       MAGNITUDE |-> 3,   LATITUDE |-> 12,
      LONGITUDE |-> 122],
     [PROVINCE |-> NULL, AREA |-> "a1", CATEGORY |-> "Y", DATE |-> 0,
      CLOCK |-> 43200,   MAGNITUDE |-> 5,   LATITUDE |-> 13,
      LONGITUDE |-> 123],
     [PROVINCE |-> "B",  AREA |-> "b1", CATEGORY |-> "Y", DATE |-> 1,
      CLOCK |-> 43200,   MAGNITUDE |-> 6,   LATITUDE |-> 14,
      LONGITUDE |-> 124],
     [PROVINCE |-> "A",  AREA |-> "a1", CATEGORY |-> "X", DATE |-> 0,
      CLOCK |-> 43200,   MAGNITUDE |-> NaN, LATITUDE |-> 15,
      LONGITUDE |-> 125] >>

\* Lines with a cell of the date or of the time that is empty or does not
\* parse: a date without a time, and a time without a date that parses.
RawPool ==
  EventPool \o
  << [PROVINCE |-> "A",  AREA |-> "a1", CATEGORY |-> "X", DATE |-> 1,
      CLOCK |-> NaN,     MAGNITUDE |-> 5,   LATITUDE |-> 16,
      LONGITUDE |-> 126],
     [PROVINCE |-> "B",  AREA |-> "b1", CATEGORY |-> "Y", DATE |-> NaN,
      CLOCK |-> 0,       MAGNITUDE |-> 3,   LATITUDE |-> 17,
      LONGITUDE |-> 127] >>

\* The columns of merged_output.csv the pages read.
AllColumns ==
  { "LATITUDE", "LONGITUDE", "DEPTH (KM)", "MAGNITUDE", "DATE", "TIME",
    "PROVINCE", "AREA", "CATEGORY" }

\* The headers explored: the full one, and each one that lacks a column.
Headers == {AllColumns} \cup { AllColumns \ {c} : c \in AllColumns }

\* The files of up to max lines of a pool, as indices into RawPool.  Every
\* page sorts the table with an unstable sort before any step that depends
\* on row order, so files are enumerated up to the order of their lines.
FilesOf(pool, max) ==
  UNION { { f \in [1..n -> 1..Len(pool)] :
              \A i \in 1..(n-1) : f[i] <= f[i+1] } : n \in 0..max }

\* The files explored by the pages: up to max lines whose date and time parse.
Files(max) == FilesOf(EventPool, max)

\* pd.read_csv: line i of the file becomes the row with index label i.  TIME
\* is the timestamp the loader derives (seconds since 2020-01-01 00:00:00).
read_csv(f) ==
  [i \in 1..Len(f) |->
     [id |-> i,
      PROVINCE |-> RawPool[f[i]].PROVINCE,
      AREA |-> RawPool[f[i]].AREA,
      CATEGORY |-> RawPool[f[i]].CATEGORY,
      DATE |-> RawPool[f[i]].DATE,
      CLOCK |-> RawPool[f[i]].CLOCK,
      TIME |-> NaN,
      MAGNITUDE |-> RawPool[f[i]].MAGNITUDE,
      LATITUDE |-> RawPool[f[i]].LATITUDE,
      LONGITUDE |-> RawPool[f[i]].LONGITUDE,
      NEXT_ID |-> NaN, NEXT_LATITUDE |-> NaN, NEXT_LONGITUDE |-> NaN,
      NEXT_TIME |-> NaN, HOURS_BETWEEN |-> NaN, LINE_COLOR |-> NULL,
      Rolling_Avg |-> NaNFraction]]

\* ------------------------------------------------------------------------
\* DataFrame helpers
\* ------------------------------------------------------------------------

Ids(t) == { t[i].id : i \in 1..Len(t) }

Injections(n, m) ==
  { p \in [1..n -> 1..m] : \A i, j \in 1..n : i # j => p[i] # p[j] }

\* df.iloc[p]: the rows at the positions p, in the order of p.
Take(t, p) == [i \in 1..Len(p) |-> t[p[i]]]

\* df.sort_values(by, ascending=ascending) with the default
\* kind="quicksort": in the order of column by, rows of equal values in any
\* order.
sort_values(t, by, ascending) ==
  LET InOrder(a, b) ==
        \/ b = NaN                      \* na_position="last"
        \/ a # NaN /\ (IF ascending THEN a <= b ELSE a >= b)
  IN  { Take(t, p) : p \in { q \in Injections(Len(t), Len(t)) :
          \A i \in 1..(Len(t) - 1) :
            InOrder(t[q[i]][by], t[q[i+1]][by]) } }

\* shift(1) written for shift(-1): the previous row's value lands in row i.
ShiftedFromPrevious(t, i) == i - 1

\* column.shift(-1): the position of the value that lands in row i.
ShiftedFrom(t, i) == i + 1

\* sample(replace=True): a row may be drawn more than once.
sample_with_replacement(t, n) ==
  { Take(t, p) : p \in [1..n -> 1..Len(t)] }

\* DataFrame.sample(n=n, random_state=42): n distinct rows, in the order the
\* generator draws them.
sample(t, n) == { Take(t, p) : p \in Injections(n, Len(t)) }

\* Python round(): half to even, of the exact quotient num / den.
round(num, den) ==
  LET q == num \div den
      r == num % den
  IN  IF 2 * r < den THEN q
      ELSE IF 2 * r > den THEN q + 1
      ELSE IF q % 2 = 0 THEN q ELSE q + 1

\* Timestamp.date()
date(ts) == ts \div SecondsPerDay

\* pd.to_datetime(date + " " + time, errors="coerce"): NaT when either part
\* is missing or does not parse.
to_datetime(day, clock) ==
  IF day = NaN \/ clock = NaN THEN NaN ELSE day * SecondsPerDay + clock

\* df["TIME"].fillna("00:00:00")
fillna_midnight(clock) == IF clock = NaN THEN 0 ELSE clock

Max(S) == CHOOSE x \in S : \A y \in S : y <= x
Min(S) == CHOOSE x \in S : \A y \in S : x <= y

\* The guard with the test left out: the table is never taken for empty.
empty_never(t) == FALSE

\* DataFrame.empty
empty(t) == t = << >>

\* ------------------------------------------------------------------------
\* State
\* ------------------------------------------------------------------------

VARIABLES
  csv,              \* merged_output.csv, as indices into RawPool
  columns,          \* the header of merged_output.csv
  error,            \* the columns named by the st.error of the loader
  arg,              \* the argument of a function that is applied on its own
  result,           \* its value, None before the call
  page,             \* the page whose script is running
  pc,               \* the position of the script
  seismic_data,     \* Mapping: the loaded table
  total_count,      \* Mapping: rows before sampling
  sample_percent,   \* Mapping: "Sample %" slider
  max_points,       \* Mapping: "Max Records" input
  mag_range,        \* Mapping: magnitude slider, <<low, high>>
  filter_mode,      \* Mapping: "Selection Mode" radio
  selected_regions, \* Mapping: the regions shown
  start_date,       \* "From" date
  end_date,         \* "To" date
  filtered_data,    \* Mapping: the filtered table
  sequential_data,  \* Mapping: the per-region links
  df,               \* other pages: the loaded table
  filtered_df,      \* other pages: the filtered table
  selected_area,    \* Heatmaps / Plotting: area select box
  selected_province,  \* Heatmaps / Plotting: province select box
  selected_epicenter, \* Heatmaps: epicenter select box
  magnitude_range,  \* Heatmaps / Data Frame: magnitude slider
  selected_categories, \* Heatmaps / Data Frame: the categories ticked
  selected_provinces, \* Data Frame: the provinces compared
  limit_points,     \* Data Frame: "Limit Data Points" checkbox
  province_data,    \* Data Frame: the rows plotted, per selected province
  monthly_stats,    \* Data Frame: the rows of the monthly statistics table
  animate_ripple,   \* Heatmaps: st.session_state.animate_ripple
  animation_df,     \* Heatmaps: the index labels of the rows to animate
  displayed_earthquakes, \* Heatmaps: the rows of the ripple frame
  event_index,      \* Heatmaps: the number of events the animation handled
  map_container,    \* Heatmaps: what the map of tab2 shows
  chart,            \* Plotting: the rows of the animated line chart
  progress_bar,     \* Plotting: the value of the progress bar, a fraction
  status_text       \* Plotting: the percentage of the status text, or NaN

vars == << arg, result, csv, columns, error, page, pc, seismic_data, total_count, sample_percent,
           max_points, mag_range, filter_mode, selected_regions,
           start_date, end_date, filtered_data, sequential_data,
           df, filtered_df, selected_area, selected_province,
           selected_epicenter, magnitude_range, selected_categories,
           selected_provinces, limit_points, province_data,
           monthly_stats, animate_ripple, animation_df,
           displayed_earthquakes, event_index, map_container,
           chart, progress_bar, status_text >>

\* The variables of the ripple animation of the Heatmaps page.
rippleVars == << animate_ripple, animation_df, displayed_earthquakes,
                 event_index, map_container >>

\* The variables of the animated chart of the Plotting page.
chartVars == << chart, progress_bar, status_text >>

\* The variables of the Mapping script, but the dates.
mappingVars == << seismic_data, total_count, sample_percent, max_points,
                  mag_range, filter_mode, selected_regions, filtered_data,
                  sequential_data >>

\* The variables of the other scripts, but the dates.
frameVars == << df, filtered_df, selected_area, selected_province,
                selected_epicenter, magnitude_range, selected_categories,
                selected_provinces, limit_points, province_data,
                  monthly_stats >>

\* ------------------------------------------------------------------------
\* pages/2_Earthquake_Mapping.py
\* ------------------------------------------------------------------------

\* The values offered for the "Sample %" slider (5..100).
SamplePercents == {50, 100}

\* The default of "Max Records" (line 109).
DefaultMaxRecords == 10000

\* The values explored for "Max Records" and for "Maximum Points per
\* Province".
MaxPointsChoices == (1..MaxCap) \cup {DefaultMaxRecords}

\* dropna(subset=[LATITUDE, LONGITUDE, DEPTH (KM), MAGNITUDE, TIME])
notna_seismic(r) ==
  /\ r.LATITUDE # NaN
  /\ r.LONGITUDE # NaN
  /\ r.MAGNITUDE # NaN
  /\ r.TIME # NaN

\* The day pd.to_datetime gives a time of day without a date: the day the
\* page runs, after every day of the file.
Today == 2

\* Lines 134-142: TIME becomes the timestamp of DATE + " " + TIME, or of TIME
\* alone in a file without a DATE column.
seismic_time(t) ==
  [i \in 1..Len(t) |->
     [t[i] EXCEPT !.TIME =
        IF "DATE" \in columns THEN to_datetime(t[i].DATE, t[i].CLOCK)
        ELSE to_datetime(Today, t[i].CLOCK)]]

\* needed_columns (line 123)
needed_columns == { "LATITUDE", "LONGITUDE", "DEPTH (KM)", "MAGNITUDE", "TIME" }

\* The cleaned table of import_seismic_data, before sampling.
cleaned_seismic(f) == SelectSeq(seismic_time(read_csv(f)), notna_seismic)

\* seismic_df.sample(frac=sample_pct/100, random_state=42)
sample_frac(t, sample_pct) ==
  IF sample_pct < 100 THEN sample(t, round(sample_pct * Len(t), 100))
  ELSE {t}

\* The cap with >= written for >: a table of exactly max_pts rows is drawn
\* again.
sample_cap_at(t, max_pts) ==
  IF Len(t) >= max_pts THEN sample(t, max_pts) ELSE {t}

\* seismic_df.sample(n=max_pts, random_state=42) when over max_pts
sample_cap(t, max_pts) ==
  IF Len(t) > max_pts THEN sample(t, max_pts) ELSE {t}

\* import_seismic_data(sample_pct, max_pts): the tables it can return.
import_seismic_data(f, sample_pct, max_pts) ==
  UNION { sample_cap(t, max_pts) :
            t \in sample_frac(cleaned_seismic(f), sample_pct) }

ImportSeismicData ==
  /\ page = "Mapping" /\ pc = "start"
  /\ \E sample_pct \in SamplePercents, max_pts \in MaxPointsChoices :
       /\ sample_percent' = sample_pct
       /\ max_points' = max_pts
       /\ IF needed_columns \subseteq columns
          THEN /\ seismic_data' \in
                    import_seismic_data(csv, sample_pct, max_pts)
               /\ total_count' = Len(cleaned_seismic(csv))
               /\ pc' = "loaded"
               /\ UNCHANGED error
          ELSE \* st.error(...), return None: unpacking None into
               \* seismic_data, total_count raises TypeError (line 164)
               /\ error' = needed_columns \ columns
               /\ pc' = "exception"
               /\ UNCHANGED << seismic_data, total_count >>
  /\ UNCHANGED << rippleVars, chartVars, arg, result, csv, page, columns, mag_range, filter_mode, selected_regions,
                  start_date, end_date, filtered_data, sequential_data,
                  frameVars >>

\* The thresholds with a lower end: the hours of the first bucket start at
\* zero.
time_color_mapping_from_zero(hours) ==
  IF hours >= 0 /\ hours < 2 THEN "blue"
  ELSE IF hours >= 2 /\ hours < 24 THEN "green"
  ELSE "orange"

\* The thresholds closed on the upper bound: <= written for <.
time_color_mapping_closed_above(hours) ==
  IF hours <= 2 THEN "blue"
  ELSE IF hours <= 24 THEN "green"
  ELSE "orange"

\* time_color_mapping(hours)
time_color_mapping(hours) ==
  IF hours < 2 THEN "blue"
  ELSE IF hours < 24 THEN "green"
  ELSE "orange"

\* time_color_mapping is called with a number of hours.
TimeColorMapping ==
  /\ pc = "start"
  /\ result' = time_color_mapping(arg)
  /\ pc' = "applied"
  /\ UNCHANGED << rippleVars, chartVars, arg, csv, page, columns, error, mappingVars, frameVars,
                  start_date, end_date >>

\* The NEXT_* columns of a table that is sorted by TIME: shift(-1) of
\* LATITUDE, LONGITUDE and TIME, and the hours between.
with_next(t) ==
  [i \in 1..Len(t) |->
     IF ShiftedFrom(t, i) \in 1..Len(t)
     THEN [t[i] EXCEPT
             !.NEXT_ID = t[ShiftedFrom(t, i)].id,
             !.NEXT_LATITUDE = t[ShiftedFrom(t, i)].LATITUDE,
             !.NEXT_LONGITUDE = t[ShiftedFrom(t, i)].LONGITUDE,
             !.NEXT_TIME = t[ShiftedFrom(t, i)].TIME,
             !.HOURS_BETWEEN =
                 (t[ShiftedFrom(t, i)].TIME - t[i].TIME) \div SecondsPerHour]
     ELSE [t[i] EXCEPT
             !.NEXT_ID = NaN, !.NEXT_LATITUDE = NaN, !.NEXT_LONGITUDE = NaN,
             !.NEXT_TIME = NaN, !.HOURS_BETWEEN = NaN]]

\* The dropna of create_sequential_connections left out.
has_next_kept(r) == TRUE

\* dropna(subset=[NEXT_LATITUDE, NEXT_LONGITUDE, HOURS_BETWEEN])
has_next(r) ==
  /\ r.NEXT_LATITUDE # NaN
  /\ r.NEXT_LONGITUDE # NaN
  /\ r.HOURS_BETWEEN # NaN

\* dropna(subset=[NEXT_LATITUDE, NEXT_LONGITUDE, NEXT_TIME, HOURS_BETWEEN])
has_next_global(r) ==
  /\ r.NEXT_LATITUDE # NaN
  /\ r.NEXT_LONGITUDE # NaN
  /\ r.NEXT_TIME # NaN
  /\ r.HOURS_BETWEEN # NaN

with_color(t) ==
  [i \in 1..Len(t) |->
     [t[i] EXCEPT !.LINE_COLOR = time_color_mapping(t[i].HOURS_BETWEEN)]]

\* Lines 169-232: sampling statistics, magnitude priority sort, the global
\* time sort and the NEXT_* columns over the whole table.
global_connections(t) ==
  UNION { { with_color(SelectSeq(with_next(byTime), has_next_global)) :
              byTime \in sort_values(byMag, "TIME", TRUE) } :
          byMag \in sort_values(t, "MAGNITUDE", FALSE) }

TemporalConnections ==
  /\ page = "Mapping" /\ pc = "loaded"
  /\ IF total_count = 0
     THEN \* percent_shown = display_count / total_count
          /\ pc' = "exception"
          /\ UNCHANGED seismic_data
     ELSE /\ seismic_data' \in global_connections(seismic_data)
          /\ pc' = "linked"
  /\ UNCHANGED << rippleVars, chartVars, arg, result, csv, page, columns, error, total_count, sample_percent, max_points,
                  mag_range, filter_mode, selected_regions, start_date,
                  end_date, filtered_data, sequential_data, frameVars >>

\* sorted(): the order of the province names.
ProvinceOrder == << "A", "B" >>

\* sorted(t["PROVINCE"].dropna().unique().tolist())
province_options(t) ==
  LET Present(p) == \E i \in 1..Len(t) : t[i].PROVINCE = p
  IN  SelectSeq(ProvinceOrder, Present)

\* st.multiselect: any options, each at most once, in the order picked.
multiselect(options) ==
  UNION { { Take(options, p) : p \in Injections(k, Len(options)) } :
            k \in 0..Len(options) }

\* The stops of the magnitude slider between the table's extremes.
slider_values(t) ==
  LET mags == { t[i].MAGNITUDE : i \in 1..Len(t) }
  IN  { m \in Min(mags)..Max(mags) : m \in mags }

\* The dates st.date_input offers: date_min..date_max of the table.
date_values(t) ==
  LET days == { date(t[i].TIME) : i \in 1..Len(t) }
  IN  Min(days)..Max(days)

\* Series.isin(list)
isin(v, list) == \E k \in 1..Len(list) : list[k] = v

\* The mask with the timestamp compared with the dates' midnights.
mapping_mask_timestamp(r, mr, regions, sd, ed) ==
  /\ r.MAGNITUDE >= mr[1]
  /\ r.MAGNITUDE <= mr[2]
  /\ isin(r.PROVINCE, regions)
  /\ r.TIME >= sd * SecondsPerDay
  /\ r.TIME <= ed * SecondsPerDay

\* Lines 273-279: the boolean mask of filtered_data.
mapping_mask(r, mr, regions, sd, ed) ==
  /\ r.MAGNITUDE >= mr[1]
  /\ r.MAGNITUDE <= mr[2]
  /\ isin(r.PROVINCE, regions)
  /\ date(r.TIME) >= sd
  /\ date(r.TIME) <= ed

mapping_filter(t, mr, regions, sd, ed) ==
  LET Keep(r) == mapping_mask(r, mr, regions, sd, ed)
  IN  SelectSeq(t, Keep)

\* The number of widgets whose value differs from the default.
Changed(P, D) == Cardinality({ w \in DOMAIN P : P[w] # D[w] })

\* The defaults of the sidebar widgets (lines 240-270).
mapping_defaults(t) ==
  [mag |-> << Min(slider_values(t)), Max(slider_values(t)) >>,
   mode |-> "All Regions",
   regions |-> province_options(t),
   start |-> Min(date_values(t)),
   end |-> Max(date_values(t))]

\* The widget values a visitor can set.
mapping_choices(t) ==
  { P \in [mag : { pr \in slider_values(t) \X slider_values(t) :
                     pr[1] <= pr[2] },
           mode : {"All Regions", "Select Specific Regions"},
           regions : multiselect(province_options(t)),
           start : date_values(t),
           end : date_values(t)] :
      /\ P.mode = "All Regions" => P.regions = province_options(t)
      /\ Changed(P, mapping_defaults(t)) <= MaxChanged }

\* Lines 234-279: the sidebar widgets and the filter.
SidebarFilters ==
  /\ page = "Mapping" /\ pc = "linked"
  /\ IF seismic_data = << >> \/ "PROVINCE" \notin columns
     THEN \* the widgets get NaN / NaT bounds from the empty table, or
          \* seismic_data["PROVINCE"] raises KeyError (lines 252, 258)
          /\ pc' = "exception"
          /\ UNCHANGED << mag_range, filter_mode, selected_regions,
                          start_date, end_date, filtered_data >>
     ELSE \E P \in mapping_choices(seismic_data) :
            /\ mag_range' = P.mag
            /\ filter_mode' = P.mode
            /\ selected_regions' = P.regions
            /\ start_date' = P.start
            /\ end_date' = P.end
            /\ filtered_data' = mapping_filter(seismic_data, P.mag,
                                    P.regions, P.start, P.end)
            /\ pc' = "filtered"
  /\ UNCHANGED << rippleVars, chartVars, arg, result, csv, page, columns, error, seismic_data, total_count, sample_percent,
                  max_points, sequential_data, frameVars >>

\* filtered_data[filtered_data["PROVINCE"] == region]
region_subset(t, region) ==
  LET InRegion(r) == r.PROVINCE # NULL /\ r.PROVINCE = region
  IN  SelectSeq(t, InRegion)

\* create_sequential_connections without its own shift(-1): the NEXT_*
\* columns of the whole table are kept.
create_sequential_connections_global(region_data) ==
  { with_color(SelectSeq(temp_df, has_next)) :
      temp_df \in sort_values(region_data, "TIME", TRUE) }

\* create_sequential_connections(region_data): the tables it can return.
create_sequential_connections(region_data) ==
  { with_color(SelectSeq(with_next(temp_df), has_next)) :
      temp_df \in sort_values(region_data, "TIME", TRUE) }

\* Lines 368-372: the loop over selected_regions and pd.concat.
RECURSIVE process_regions(_, _)
process_regions(regions, t) ==
  IF regions = << >> THEN { << >> }
  ELSE { processed \o rest :
           processed \in
             create_sequential_connections(region_subset(t, Head(regions))),
           rest \in process_regions(Tail(regions), t) }

SequentialConnections ==
  /\ page = "Mapping" /\ pc = "filtered"
  /\ sequential_data' \in process_regions(selected_regions, filtered_data)
  /\ pc' = "done"
  /\ UNCHANGED << rippleVars, chartVars, arg, result, csv, page, columns, error, seismic_data, total_count, sample_percent,
                  max_points, mag_range, filter_mode, selected_regions,
                  start_date, end_date, filtered_data, frameVars >>

\* ------------------------------------------------------------------------
\* pages/4_Earthquake_Heatmaps.py
\* ------------------------------------------------------------------------

AreaOrder == << "a1", "a2", "b1" >>
CategoryOrder == << "X", "Y" >>

\* Series.unique(): the values of a column, a missing one included.
unique(t, col) == { t[i][col] : i \in 1..Len(t) }

\* sorted(values): comparing a missing value (a float) with a string raises
\* TypeError.
sortable(values) == ~ (NULL \in values /\ Cardinality(values) > 1)

\* One month back from a date in January (pd.DateOffset(months=1)).
DaysBack == 31

\* Lines 79-85: without a "DATE & TIME" column the timestamp of a row is
\* its DATE.
heatmaps_time(t) ==
  [i \in 1..Len(t) |-> [t[i] EXCEPT !.TIME = to_datetime(t[i].DATE, 0)]]

\* load_earthquake_data() of the Heatmaps page: the tables it can return.
load_heatmaps(f) == sort_values(heatmaps_time(read_csv(f)), "DATE", TRUE)

\* required_columns (line 105)
required_heatmaps ==
  { "LATITUDE", "LONGITUDE", "MAGNITUDE", "CATEGORY", "AREA", "PROVINCE",
    "DATE" }

\* Lines 100-113: the columns the error message names; df["DATE"] raises
\* KeyError inside the loader, which the except clause reports.
missing_heatmaps ==
  IF "DATE" \notin columns THEN {"DATE"} ELSE required_heatmaps \ columns

LoadHeatmaps ==
  /\ page = "Heatmaps" /\ pc = "start"
  /\ IF missing_heatmaps = {}
     THEN /\ df' \in load_heatmaps(csv)
          /\ pc' = "loaded"
          /\ UNCHANGED error
     ELSE \* st.error(...), st.stop()
          /\ error' = missing_heatmaps
          /\ pc' = "stopped"
          /\ UNCHANGED df
  /\ UNCHANGED << rippleVars, chartVars, arg, result, csv, page, columns, mappingVars, start_date, end_date, filtered_df,
                  selected_area, selected_province, selected_epicenter,
                  magnitude_range, selected_categories, selected_provinces,
                  limit_points, province_data,
                  monthly_stats >>

\* The pairs a two-handle slider over the column's magnitudes can give.
magnitude_pairs(t) ==
  LET mags == { t[i].MAGNITUDE : i \in 1..Len(t) } \ {NaN}
  IN  { pr \in mags \X mags : pr[1] <= pr[2] }

\* The <<start_date, end_date>> the three date range types can give:
\* "Specific Dates", "Year" (the pool lies in one year) and "Recent Period".
date_pairs(t) ==
  LET days == { t[i].DATE : i \in 1..Len(t) } \ {NaN}
      lo == Min(days)
      hi == Max(days)
  IN  { pr \in (lo..hi) \X (lo..hi) : pr[1] <= pr[2] }
        \cup { << hi - DaysBack, hi >> }

\* groupby(by)["MAGNITUDE"].idxmax(): the position of the first strongest
\* row of group g.
idxmax(t, by, g) ==
  LET members == { i \in 1..Len(t) : t[i][by] = g }
      top == Max({ t[i].MAGNITUDE : i \in members })
  IN  Min({ i \in members : t[i].MAGNITUDE = top })

\* df.loc[df.groupby([by])["MAGNITUDE"].idxmax()].reset_index(drop=True):
\* one row per group, groups in sorted order, rows of a missing key dropped.
epicenter(t, by, order) ==
  LET Present(g) == \E i \in 1..Len(t) : t[i][by] = g
      groups == SelectSeq(order, Present)
  IN  [k \in 1..Len(groups) |-> t[idxmax(t, by, groups[k])]]

\* .iloc written for .loc: the index label of the strongest row is taken
\* as a position (labels are the lines of the file).
epicenter_province_iloc(t) ==
  LET Present(g) == \E i \in 1..Len(t) : t[i].PROVINCE = g
      groups == SelectSeq(ProvinceOrder, Present)
      Label(g) == t[idxmax(t, "PROVINCE", g)].id
  IN  [k \in 1..Len(groups) |-> t[((Label(groups[k]) - 1) % Len(t)) + 1]]

\* Line 233: the strongest earthquake of each province.
epicenter_province(t) == epicenter(t, "PROVINCE", ProvinceOrder)

\* Line 235: the strongest earthquake of each area.
epicenter_area(t) == epicenter(t, "AREA", AreaOrder)

\* Lines 207-235: the filter chain of the Heatmaps page under the widget
\* values P.
heat_filter(t, P) ==
  LET InArea(r) == r.AREA # NULL /\ r.AREA = P.area
      InProvince(r) == r.PROVINCE # NULL /\ r.PROVINCE = P.province
      InDates(r) == /\ r.DATE # NaN
                    /\ r.DATE >= P.dates[1]
                    /\ r.DATE <= P.dates[2]
      InMagnitude(r) == /\ r.MAGNITUDE # NaN
                        /\ r.MAGNITUDE >= P.mag[1]
                        /\ r.MAGNITUDE <= P.mag[2]
      InCategories(r) == r.CATEGORY \in P.categories
      byArea == IF P.area # None THEN SelectSeq(t, InArea) ELSE t
      byProvince == IF P.province # None
                    THEN SelectSeq(byArea, InProvince) ELSE byArea
      byDate == SelectSeq(byProvince, InDates)
      byMagnitude == SelectSeq(byDate, InMagnitude)
      byCategory == SelectSeq(byMagnitude, InCategories)
  IN  IF P.epicenter = "Province"
      THEN epicenter_province(byCategory)
      ELSE IF P.epicenter = "Area"
      THEN epicenter_area(byCategory)
      ELSE byCategory

\* The widget values of the Heatmaps sidebar (lines 116-204).
heat_defaults(t) ==
  [area |-> None, province |-> None, epicenter |-> None,
   dates |-> << Min(unique(t, "DATE") \ {NaN}),
                Max(unique(t, "DATE") \ {NaN}) >>,
   mag |-> << Min(unique(t, "MAGNITUDE") \ {NaN}),
              Max(unique(t, "MAGNITUDE") \ {NaN}) >>,
   categories |-> unique(t, "CATEGORY")]

heat_choices(t) ==
  { P \in [area : {None} \cup unique(t, "AREA"),
           province : {None} \cup unique(t, "PROVINCE"),
           epicenter : {None, "Province", "Area"},
           dates : date_pairs(t),
           mag : magnitude_pairs(t),
           categories : SUBSET unique(t, "CATEGORY")] :
      Changed(P, heat_defaults(t)) <= MaxChanged }

\* The widget values the script holds.
heat_params ==
  [area |-> selected_area, province |-> selected_province,
   epicenter |-> selected_epicenter, dates |-> << start_date, end_date >>,
   mag |-> magnitude_range, categories |-> selected_categories]

\* Lines 116-250: the sidebar widgets, the filter chain and the metrics.
HeatmapsFilters ==
  /\ page = "Heatmaps" /\ pc = "loaded"
  /\ IF \/ ~ sortable(unique(df, "AREA"))
        \/ ~ sortable(unique(df, "PROVINCE"))
        \/ df = << >>
        \/ unique(df, "DATE") = {NaN}
        \/ unique(df, "MAGNITUDE") = {NaN}
     THEN \* sorted() raises, or the widgets get NaN / NaT bounds
          /\ pc' = "exception"
          /\ UNCHANGED << start_date, end_date, filtered_df, selected_area,
                          selected_province, selected_epicenter,
                          magnitude_range, selected_categories >>
     ELSE \E P \in heat_choices(df) :
            /\ selected_area' = P.area
            /\ selected_province' = P.province
            /\ selected_epicenter' = P.epicenter
            /\ start_date' = P.dates[1]
            /\ end_date' = P.dates[2]
            /\ magnitude_range' = P.mag
            /\ selected_categories' = P.categories
            /\ filtered_df' = heat_filter(df, P)
            /\ pc' = "filtered"
  /\ UNCHANGED << rippleVars, chartVars, arg, result, csv, page, columns, error, mappingVars, df, selected_provinces,
                  limit_points, province_data,
                  monthly_stats >>

\* Lines 237-460: the sidebar metrics and the heatmap of tab1, which is
\* drawn for one row or more; "No data to display with current filters."
\* otherwise.
HeatmapsView ==
  /\ page = "Heatmaps" /\ pc = "filtered"
  /\ pc' = IF Len(filtered_df) > 0 THEN "done" ELSE "no data"
  /\ UNCHANGED << rippleVars, chartVars, arg, result, csv, page, columns, error, mappingVars, frameVars, start_date, end_date >>

\* MAX_DISPLAYED (line 537)
MAX_DISPLAYED(t) == Min({10, Len(t)})

\* The slice written [:max]: the first rows are kept.
keep_first(displayed, max) ==
  IF Len(displayed) > max THEN SubSeq(displayed, 1, max) ELSE displayed

\* Lines 552-553: displayed_earthquakes[-MAX_DISPLAYED:] of a list longer
\* than MAX_DISPLAYED.
keep_last(displayed, max) ==
  IF Len(displayed) > max
  THEN SubSeq(displayed, Len(displayed) - max + 1, Len(displayed))
  ELSE displayed

\* Lines 616-627: the static map of tab2 is drawn at the end of a run of the
\* script.
static_map(flag, t) == IF ~ flag /\ Len(t) > 0 THEN "static" ELSE None

\* The script runs with no button of tab2 pressed: first for the page, then
\* after any other widget; a run in progress is given up.
RunRippleTab ==
  /\ page = "Heatmaps" /\ pc \in {"start", "idle", "animating"}
  /\ displayed_earthquakes' = << >>
  /\ event_index' = 0
  /\ map_container' = static_map(animate_ripple, animation_df)
  /\ pc' = "idle"
  /\ UNCHANGED << animate_ripple, animation_df, chartVars, arg, result, csv,
                  page, columns, error, mappingVars, frameVars, start_date,
                  end_date >>

\* Lines 617-619: "Start Ripple Animation" is pressed; run_ripple_animation
\* returns at once for an empty table.
StartRippleAnimation ==
  /\ page = "Heatmaps" /\ pc = "idle"
  /\ animate_ripple' = TRUE
  /\ displayed_earthquakes' = << >>
  /\ event_index' = 0
  /\ map_container' = None
  /\ pc' = IF Len(animation_df) = 0 THEN "idle" ELSE "animating"
  /\ UNCHANGED << animation_df, chartVars, arg, result, csv, page, columns,
                  error, mappingVars, frameVars, start_date, end_date >>

\* Lines 542-611: one turn of the loop over the events, with its frames.
AnimateEvent ==
  /\ page = "Heatmaps" /\ pc = "animating"
  /\ animate_ripple
  /\ event_index < Len(animation_df)
  /\ event_index' = event_index + 1
  /\ displayed_earthquakes' =
       keep_last(Append(displayed_earthquakes, animation_df[event_index']),
                 MAX_DISPLAYED(animation_df))
  /\ map_container' = "frame"
  /\ UNCHANGED << animate_ripple, animation_df, chartVars, arg, result, csv,
                  page, columns, error, pc, mappingVars, frameVars,
                  start_date, end_date >>

\* Lines 543-544, 613-627: the loop ends, the script goes on to the buttons
\* and to the test for the static map.
CompleteRippleAnimation ==
  /\ page = "Heatmaps" /\ pc = "animating"
  /\ event_index = Len(animation_df) \/ ~ animate_ripple
  /\ pc' = "idle"
  /\ UNCHANGED << rippleVars, chartVars, arg, result, csv, page, columns,
                  error, mappingVars, frameVars, start_date, end_date >>

\* Lines 621-623: "Stop Animation" is pressed; a run in progress is given up
\* and the script runs again.
StopRippleAnimation ==
  /\ page = "Heatmaps" /\ pc \in {"idle", "animating"}
  /\ animate_ripple' = FALSE
  /\ displayed_earthquakes' = << >>
  /\ event_index' = 0
  /\ map_container' = static_map(FALSE, animation_df)
  /\ pc' = "idle"
  /\ UNCHANGED << animation_df, chartVars, arg, result, csv, page, columns,
                  error, mappingVars, frameVars, start_date, end_date >>

\* ------------------------------------------------------------------------
\* pages/3_Earthquake_Data_Frame.py
\* ------------------------------------------------------------------------

\* df.dropna(subset=["DATETIME"])
notna_datetime(r) == r.TIME # NaN

\* Lines 77-84 (Plotting: 107-114): DATETIME is the timestamp of DATE and
\* TIME, an empty TIME taken as midnight; DATE itself in a file without a
\* TIME column.
datetime(t) ==
  [i \in 1..Len(t) |->
     [t[i] EXCEPT
        !.TIME = IF "TIME" \in columns
                 THEN to_datetime(t[i].DATE, fillna_midnight(t[i].CLOCK))
                 ELSE to_datetime(t[i].DATE, 0)]]

\* load_earthquake_data() of the Data Frame page: the tables it can return.
load_frame(f) ==
  sort_values(SelectSeq(datetime(read_csv(f)), notna_datetime), "TIME", TRUE)

\* Lines 100-113: the columns the error message names; df["DATE"] raises
\* KeyError inside the loader (line 77), which the except clause reports.
missing_frame ==
  IF "DATE" \notin columns THEN {"DATE"}
  ELSE {"MAGNITUDE", "PROVINCE"} \ columns

LoadDataFrame ==
  /\ page = "Data Frame" /\ pc = "start"
  /\ IF missing_frame = {}
     THEN /\ df' \in load_frame(csv)
          /\ pc' = "loaded"
          /\ UNCHANGED error
     ELSE \* st.error(...), st.stop()
          /\ error' = missing_frame
          /\ pc' = "stopped"
          /\ UNCHANGED df
  /\ UNCHANGED << rippleVars, chartVars, arg, result, csv, page, columns, mappingVars, start_date, end_date, filtered_df,
                  selected_area, selected_province, selected_epicenter,
                  magnitude_range, selected_categories, selected_provinces,
                  limit_points, province_data,
                  monthly_stats >>

\* Lines 190-199: the categories of the category filter; the filter is not
\* drawn for a file without a CATEGORY column.
frame_categories(t) ==
  IF "CATEGORY" \in columns THEN unique(t, "CATEGORY") ELSE {}

\* sorted(df["PROVINCE"].unique())
unique_provinces(t) ==
  LET Present(p) == p \in unique(t, "PROVINCE")
  IN  SelectSeq(ProvinceOrder \o << NULL >>, Present)

\* Lines 202-215: the filter chain of the Data Frame page.
frame_filter(t, P) ==
  LET InDates(r) == date(r.TIME) >= P.dates[1] /\ date(r.TIME) <= P.dates[2]
      InProvinces(r) == isin(r.PROVINCE, P.provinces)
      InCategories(r) == \/ "CATEGORY" \notin columns
                         \/ r.CATEGORY \in P.categories
  IN  SelectSeq(SelectSeq(SelectSeq(t, InDates), InProvinces), InCategories)

\* The defaults of the sidebar (lines 125-197): the most frequent provinces,
\* which are all of them in a file of up to five provinces.
frame_defaults(t) ==
  [provinces |-> unique_provinces(t),
   dates |-> << Min(unique(t, "DATE") \ {NaN}),
                Max(unique(t, "DATE") \ {NaN}) >>,
   categories |-> frame_categories(t)]

frame_choices(t) ==
  { P \in [provinces : multiselect(unique_provinces(t)),
           dates : date_pairs(t),
           categories : SUBSET frame_categories(t)] :
      Changed(P, frame_defaults(t)) <= MaxChanged }

frame_params ==
  [provinces |-> selected_provinces, dates |-> << start_date, end_date >>,
   categories |-> selected_categories]

\* Lines 116-234: the sidebar widgets, the filter chain and the metrics.
DataFrameFilters ==
  /\ page = "Data Frame" /\ pc = "loaded"
  /\ IF ~ sortable(unique(df, "PROVINCE")) \/ df = << >>
     THEN \* sorted() raises, or the widgets get NaT bounds
          /\ pc' = "exception"
          /\ UNCHANGED << start_date, end_date, filtered_df,
                          selected_categories, selected_provinces >>
     ELSE \E P \in frame_choices(df) :
            /\ selected_provinces' = P.provinces
            /\ start_date' = P.dates[1]
            /\ end_date' = P.dates[2]
            /\ selected_categories' = P.categories
            /\ filtered_df' = frame_filter(df, P)
            /\ pc' = "filtered"
  /\ UNCHANGED << rippleVars, chartVars, arg, result, csv, page, columns, error, mappingVars, df, selected_area,
                  selected_province, selected_epicenter, magnitude_range,
                  limit_points, province_data,
                  monthly_stats >>

\* np.arange(start, stop, step)
arange(start, stop, step) ==
  [k \in 1..((stop - start + step - 1) \div step) |-> start + (k - 1) * step]

\* province_data.iloc[indices]: zero-based positions.
iloc(t, indices) == [k \in 1..Len(indices) |-> t[indices[k] + 1]]

\* Lines 642-647: the point limiter of one province's trace; the tables it
\* can return.
limit_province(province_rows, limit, max_pts) ==
  IF limit /\ Len(province_rows) > max_pts
  THEN { iloc(sorted, arange(0, Len(sorted), Len(sorted) \div max_pts)) :
           sorted \in sort_values(province_rows, "TIME", TRUE) }
  ELSE { province_rows }

\* The "Rolling Average Window (days)" slider at its default (line 555).
rolling_window == 7

RECURSIVE Sum(_)
Sum(values) == IF values = << >> THEN 0 ELSE Head(values) + Sum(Tail(values))

\* The mean of the MAGNITUDE cells of the rows, the empty cells skipped.
mean(rows) ==
  LET HasValue(r) == r.MAGNITUDE # NaN
      valid == SelectSeq(rows, HasValue)
  IN  IF valid = << >> THEN NaNFraction
      ELSE [num |-> Sum([k \in 1..Len(valid) |-> valid[k].MAGNITUDE]),
            den |-> Len(valid)]

\* Line 627: rolling(f"{window}D").mean() at row i of a table in time
\* order: the mean over the rows up to row i whose time is less than
\* window days before the time of row i.
rolling_mean(t, i, window) ==
  LET InWindow(r) == r.TIME > t[i].TIME - window * SecondsPerDay
  IN  mean(SelectSeq(SubSeq(t, 1, i), InWindow))

with_rolling_avg(t, window) ==
  [i \in 1..Len(t) |->
     [t[i] EXCEPT !.Rolling_Avg = rolling_mean(t, i, window)]]

\* Lines 626-632: trend_df, the rows in time order within the magnitude
\* range.
trend_rows(t, mr) ==
  LET InRange(r) == /\ r.MAGNITUDE # NaN
                    /\ r.MAGNITUDE >= mr[1]
                    /\ r.MAGNITUDE <= mr[2]
  IN  { SelectSeq(with_rolling_avg(sorted, rolling_window), InRange) :
          sorted \in sort_values(t, "TIME", TRUE) }

\* trend_df[trend_df["PROVINCE"] == province]
province_rows_of(t, province) ==
  LET InProvince(r) == r.PROVINCE # NULL /\ r.PROVINCE = province
  IN  SelectSeq(t, InProvince)

\* Lines 638-647: the rows plotted for each selected province, in the
\* order of selected_provinces; the sequences of tables the loop can give.
RECURSIVE province_traces(_, _, _, _)
province_traces(trend_df, provinces, limit, max_pts) ==
  IF provinces = << >> THEN { << >> }
  ELSE { << trace >> \o rest :
           trace \in limit_province(
                       province_rows_of(trend_df, Head(provinces)),
                       limit, max_pts),
           rest \in province_traces(trend_df, Tail(provinces),
                                    limit, max_pts) }

\* Lines 837-855: the density traces of fig2, as the positions in
\* selected_provinces of the provinces that get one; sizes[k] is
\* len(province_data) of province k.
kde_traces(sizes) ==
  LET Enough(k) == sizes[k] > 5
  IN  SelectSeq([k \in 1..Len(sizes) |-> k], Enough)

\* The KDE check box of tab4 is ticked.
KernelDensityEstimation ==
  /\ pc = "start"
  /\ result' = kde_traces(arg)
  /\ pc' = "applied"
  /\ UNCHANGED << rippleVars, chartVars, arg, csv, page, columns, error, mappingVars, frameVars,
                  start_date, end_date >>

\* Series.pct_change() of the yearly totals with 0 in the first row.
pct_change_from_zero(totals) ==
  [k \in 1..Len(totals) |->
     IF k = 1 THEN [num |-> 0, den |-> 1]
     ELSE [num |-> totals[k] - totals[k - 1], den |-> totals[k - 1]]]

\* Series.pct_change(): the change from the row before as a fraction
\* num / den, NaN in the first row.
pct_change(totals) ==
  [k \in 1..Len(totals) |->
     IF k = 1 THEN NaNFraction
     ELSE [num |-> totals[k] - totals[k - 1], den |-> totals[k - 1]]]

\* Lines 526-528: f"{x:+.1f}%" of x = change * 100, as the sign and the
\* tenths of a percent, or "N/A" for NaN.
format_percent(change) ==
  IF change = NaNFraction THEN << "N/A" >>
  ELSE LET tenths == round(1000 * change.num, change.den)
       IN  << IF change.num < 0 THEN "-" ELSE "+",
              IF tenths < 0 THEN -tenths ELSE tenths >>

\* Lines 520-528: the "% Change in Count" column of yearly_summary, for the
\* "Total Earthquakes" of the years in ascending order.
percent_change_in_count(totals) ==
  LET change == pct_change(totals)
  IN  [k \in 1..Len(totals) |-> format_percent(change[k])]

\* The yearly comparison of tab2 is computed for the totals of two years or
\* more.
YearlySummary ==
  /\ pc = "start"
  /\ result' = percent_change_in_count(arg)
  /\ pc' = "applied"
  /\ UNCHANGED << rippleVars, chartVars, arg, csv, page, columns, error, mappingVars, frameVars,
                  start_date, end_date >>

\* The values of the selected metric in the file; a cell may be empty.
MetricValues == {NaN, 4, 6}

\* The sum of fractions, as a fraction.
RECURSIVE SumFractions(_)
SumFractions(fs) ==
  IF fs = << >> THEN [num |-> 0, den |-> 1]
  ELSE LET h == Head(fs)
           t == SumFractions(Tail(fs))
       IN  [num |-> h.num * t.den + t.num * h.den, den |-> h.den * t.den]

\* Lines 314-318: monthly_data of one year, a row per month that has events:
\* COUNT is the size of the group, AVG_MAGNITUDE the mean of its cells of the
\* selected metric, the empty ones skipped.
monthly_data(months) ==
  LET NotNa(x) == x # NaN
      Average(cells) ==
        LET values == SelectSeq(cells, NotNa)
        IN  IF values = << >> THEN NaNFraction
            ELSE [num |-> Sum(values), den |-> Len(values)]
  IN  [k \in 1..Len(months) |->
         [COUNT |-> Len(months[k]), AVG_MAGNITUDE |-> Average(months[k])]]

\* Lines 511-516: the row of the year in yearly_summary:
\* agg({"COUNT": "sum", "AVG_MAGNITUDE": "mean"}) over the rows of its
\* months.
yearly_summary(monthly) ==
  LET NotNa(f) == f # NaNFraction
      counts == [k \in 1..Len(monthly) |-> monthly[k].COUNT]
      means == SelectSeq([k \in 1..Len(monthly) |-> monthly[k].AVG_MAGNITUDE],
                         NotNa)
      total == SumFractions(means)
  IN  [Total_Earthquakes |-> Sum(counts),
       Average_Magnitude |->
         IF means = << >> THEN NaNFraction
         ELSE [num |-> total.num, den |-> total.den * Len(means)]]

\* The yearly comparison table of tab2 is computed for the months of a
\* selected year.
YearlyComparison ==
  /\ pc = "start"
  /\ result' = yearly_summary(monthly_data(arg))
  /\ pc' = "applied"
  /\ UNCHANGED << rippleVars, chartVars, arg, csv, page, columns, error, mappingVars, frameVars,
                  start_date, end_date >>

\* The days of January 2020.
DaysOfJanuary == 31

\* Timestamp.strftime("%Y-%m")
strftime_year_month(ts) ==
  IF date(ts) < DaysOfJanuary THEN "2020-01" ELSE "2020-02"

\* The values in ascending order.
sorted_values(values) ==
  CHOOSE s \in [1..Len(values) -> { values[i] : i \in 1..Len(values) }] :
    /\ \A i \in 1..(Len(values) - 1) : s[i] <= s[i + 1]
    /\ \E f \in Injections(Len(values), Len(values)) :
         \A i \in 1..Len(values) : s[i] = values[f[i]]

\* Lines 749-751: agg(["count", "mean", "median", "min", "max", "std"]) of the
\* cells of one group; every function skips the empty cells. The mean and
\* the median are fractions num / den, the standard deviation is the square
\* root of the fraction num / den (the sample variance, ddof = 1).
agg(cells) ==
  LET NotNa(x) == x # NaN
      values == SelectSeq(cells, NotNa)
      n == Len(values)
      s == sorted_values(values)
      Square(x) == x * x
      squares == [i \in 1..n |-> Square(values[i])]
  IN  [Count |-> n,
       Average |-> IF n = 0 THEN NaNFraction ELSE [num |-> Sum(values), den |-> n],
       Median |-> IF n = 0 THEN NaNFraction
                  ELSE IF n % 2 = 1 THEN [num |-> s[(n + 1) \div 2], den |-> 1]
                  ELSE [num |-> s[n \div 2] + s[n \div 2 + 1], den |-> 2],
       Minimum |-> IF n = 0 THEN NaN ELSE Min({ values[i] : i \in 1..n }),
       Maximum |-> IF n = 0 THEN NaN ELSE Max({ values[i] : i \in 1..n }),
       StdDev |-> IF n < 2 THEN NaNFraction
                  ELSE [num |-> n * Sum(squares) - Square(Sum(values)),
                        den |-> n * (n - 1)]]

\* The rows of one group of stats_df, and its MAGNITUDE cells.
group_rows(t, province, year_month) ==
  LET InGroup(r) == /\ r.PROVINCE = province
                    /\ strftime_year_month(r.TIME) = year_month
  IN  SelectSeq(t, InGroup)

group_cells(t, province, year_month) ==
  LET rows == group_rows(t, province, year_month)
  IN  [i \in 1..Len(rows) |-> rows[i].MAGNITUDE]

\* Lines 745-754: monthly_stats, one row per (PROVINCE, YearMonth) group;
\* groupby leaves out the rows without a province.
groupby_agg(t) ==
  LET keys == { << t[i].PROVINCE, strftime_year_month(t[i].TIME) >> :
                  i \in { j \in 1..Len(t) : t[j].PROVINCE # NULL } }
  IN  { [Province |-> k[1], YearMonth |-> k[2],
         stats |-> agg(group_cells(t, k[1], k[2]))] : k \in keys }

\* Lines 544-767 (tab3): the trend controls, one trace per province and the
\* monthly statistics.
TrendAnalysis ==
  /\ page = "Data Frame" /\ pc = "filtered"
  /\ IF empty(filtered_df)
     THEN \* "No data available for the selected filters."
          /\ pc' = "no data"
          /\ UNCHANGED << magnitude_range, limit_points, max_points,
                          province_data, monthly_stats >>
     ELSE IF magnitude_pairs(filtered_df) = {}
     THEN \* the slider gets NaN bounds
          /\ pc' = "exception"
          /\ UNCHANGED << magnitude_range, limit_points, max_points,
                          province_data, monthly_stats >>
     ELSE /\ magnitude_range' \in magnitude_pairs(filtered_df)
          /\ limit_points' \in BOOLEAN
          /\ max_points' \in (IF limit_points' THEN MaxPointsChoices
                                               ELSE {max_points})
          /\ \E trend_df \in trend_rows(filtered_df, magnitude_range') :
               province_data' \in
                 province_traces(trend_df, selected_provinces,
                                 limit_points', max_points')
          /\ monthly_stats' = groupby_agg(filtered_df)
          /\ pc' = "done"
  /\ UNCHANGED << rippleVars, chartVars, arg, result, csv, page, columns, error, seismic_data, total_count, sample_percent,
                  mag_range, filter_mode, selected_regions, filtered_data,
                  sequential_data, start_date, end_date, df, filtered_df,
                  selected_area, selected_province, selected_epicenter,
                  selected_categories, selected_provinces >>

\* ------------------------------------------------------------------------
\* pages/1_Earthquake_Plotting.py
\* ------------------------------------------------------------------------

\* The first option of the Plotting page's select boxes.
All == "All"

\* load_earthquake_data() of the Plotting page: the tables it can return.
load_plotting(f) ==
  sort_values(SelectSeq(datetime(read_csv(f)), notna_datetime), "TIME", TRUE)

\* Lines 129-142: the columns the error message names; df["DATE"] raises
\* KeyError inside the loader (line 107), which the except clause reports.
missing_plotting ==
  IF "DATE" \notin columns THEN {"DATE"} ELSE {"MAGNITUDE"} \ columns

LoadPlotting ==
  /\ page = "Plotting" /\ pc = "start"
  /\ IF missing_plotting = {}
     THEN /\ df' \in load_plotting(csv)
          /\ pc' = "loaded"
          /\ UNCHANGED error
     ELSE \* st.error(...), st.stop()
          /\ error' = missing_plotting
          /\ pc' = "stopped"
          /\ UNCHANGED df
  /\ UNCHANGED << rippleVars, chartVars, arg, result, csv, page, columns, mappingVars, start_date, end_date, filtered_df,
                  selected_area, selected_province, selected_epicenter,
                  magnitude_range, selected_categories, selected_provinces,
                  limit_points, province_data,
                  monthly_stats >>

\* Lines 161-167: the areas offered for the selected province.
plot_area_options(t, province) ==
  IF province = All THEN unique(t, "AREA") \ {NULL}
  ELSE unique(province_rows_of(t, province), "AREA") \ {NULL}

\* Lines 231-243: the filter chain of the Plotting page.
plot_filter(t, P) ==
  LET InDates(r) == date(r.TIME) >= P.dates[1] /\ date(r.TIME) <= P.dates[2]
      InProvince(r) == r.PROVINCE # NULL /\ r.PROVINCE = P.province
      InArea(r) == r.AREA # NULL /\ r.AREA = P.area
      byDate == SelectSeq(t, InDates)
      byProvince == IF P.province # All
                    THEN SelectSeq(byDate, InProvince) ELSE byDate
  IN  IF P.area # All THEN SelectSeq(byProvince, InArea) ELSE byProvince

plot_choices(t) ==
  { P \in [province : {All} \cup (unique(t, "PROVINCE") \ {NULL}),
           area : {All} \cup (unique(t, "AREA") \ {NULL}),
           dates : date_pairs(t)] :
      P.area \in {All} \cup plot_area_options(t, P.province) }

plot_params ==
  [province |-> selected_province, area |-> selected_area,
   dates |-> << start_date, end_date >>]

\* Lines 145-243: the sidebar widgets and the filter chain.
PlottingFilters ==
  /\ page = "Plotting" /\ pc = "loaded"
  /\ IF df = << >> \/ ~ ({"PROVINCE", "AREA"} \subseteq columns)
     THEN \* the date widgets get NaT bounds, or df["PROVINCE"] or
          \* df["AREA"] raises KeyError (lines 156, 163)
          /\ pc' = "exception"
          /\ UNCHANGED << start_date, end_date, filtered_df, selected_area,
                          selected_province >>
     ELSE \E P \in plot_choices(df) :
            /\ selected_province' = P.province
            /\ selected_area' = P.area
            /\ start_date' = P.dates[1]
            /\ end_date' = P.dates[2]
            /\ filtered_df' = plot_filter(df, P)
            /\ pc' = "filtered"
  /\ UNCHANGED << rippleVars, chartVars, arg, result, csv, page, columns, error, mappingVars, df, selected_epicenter,
                  magnitude_range, selected_categories, selected_provinces,
                  limit_points, province_data,
                  monthly_stats >>

\* filtered_df.iloc[:1]
iloc_first(t) == IF t = << >> THEN << >> ELSE << t[1] >>

\* Lines 245-386: the time series chart, or "No data available for the
\* selected filters." for an empty table.
PlottingView ==
  /\ page = "Plotting" /\ pc = "filtered"
  /\ pc' = IF empty(filtered_df) THEN "no data" ELSE "done"
  /\ chart' = iloc_first(filtered_df)
  /\ UNCHANGED << rippleVars, progress_bar, status_text, arg, result, csv,
                  page, columns, error, mappingVars, frameVars, start_date,
                  end_date >>

\* Lines 278, 339-369: "Start Animation" is pressed: the script runs again,
\* draws the chart with the first row and enters animate_chart().
StartAnimation ==
  /\ page = "Plotting" /\ pc \in {"done", "animated"}
  /\ chart' = iloc_first(filtered_df)
  /\ progress_bar' = [num |-> 0, den |-> 1]
  /\ status_text' = NaN
  /\ pc' = "animating"
  /\ UNCHANGED << rippleVars, arg, result, csv, page, columns, error,
                  mappingVars, frameVars, start_date, end_date >>

\* Lines 354-365: one turn of the loop of animate_chart(), for
\* i = len(chart) + 1.
AddRows ==
  /\ page = "Plotting" /\ pc = "animating"
  /\ Len(chart) < Len(filtered_df)
  /\ LET i == Len(chart) + 1
         total_records == Len(filtered_df)
     IN  /\ chart' = Append(chart, filtered_df[i])
         /\ progress_bar' = IF i >= total_records
                            THEN [num |-> 1, den |-> 1]
                            ELSE [num |-> i, den |-> total_records]
         /\ status_text' = IF i >= total_records THEN 100
                           ELSE round(100 * i, total_records)
  /\ UNCHANGED << rippleVars, arg, result, csv, page, columns, error, pc,
                  mappingVars, frameVars, start_date, end_date >>

\* Line 368: the loop is over, the status text reads "100% Complete".
AnimationComplete ==
  /\ page = "Plotting" /\ pc = "animating"
  /\ Len(chart) = Len(filtered_df)
  /\ status_text' = 100
  /\ pc' = "animated"
  /\ UNCHANGED << rippleVars, chart, progress_bar, arg, result, csv, page,
                  columns, error, mappingVars, frameVars, start_date,
                  end_date >>

\* Lines 374-383: "Reset" is pressed: the script runs again and draws the
\* chart anew; the status text reads "0% Reset Complete".
ResetChart ==
  /\ page = "Plotting" /\ pc \in {"done", "animating", "animated"}
  /\ chart' = iloc_first(filtered_df)
  /\ progress_bar' = [num |-> 0, den |-> 1]
  /\ status_text' = 0
  /\ pc' = "done"
  /\ UNCHANGED << rippleVars, arg, result, csv, page, columns, error,
                  mappingVars, frameVars, start_date, end_date >>

\* ------------------------------------------------------------------------
\* Specification
\* ------------------------------------------------------------------------

Pages == {"Plotting", "Mapping", "Data Frame", "Heatmaps"}

\* The script starts: no table yet, the widgets not yet drawn.
Start ==
  /\ pc = "start"
  /\ error = {}
  /\ animate_ripple = FALSE
  /\ displayed_earthquakes = << >>
  /\ event_index = 0
  /\ map_container = None
  /\ chart = << >>
  /\ progress_bar = [num |-> 0, den |-> 1]
  /\ status_text = NaN
  /\ seismic_data = << >>
  /\ total_count = 0
  /\ sample_percent = 100
  /\ max_points = DefaultMaxRecords
  /\ mag_range = << 0, 0 >>
  /\ filter_mode = "All Regions"
  /\ selected_regions = << >>
  /\ start_date = 0
  /\ end_date = 0
  /\ filtered_data = << >>
  /\ sequential_data = << >>
  /\ df = << >>
  /\ filtered_df = << >>
  /\ selected_area = None
  /\ selected_province = None
  /\ selected_epicenter = None
  /\ magnitude_range = << 0, 0 >>
  /\ selected_categories = {}
  /\ selected_provinces = << >>
  /\ limit_points = FALSE
  /\ province_data = << >>
  /\ monthly_stats = {}

\* No function is applied on its own.
Idle == arg = None /\ result = None

Init ==
  /\ page \in Pages
  /\ csv \in Files(IF page = "Mapping" THEN MaxMappingRows ELSE MaxRows)
  /\ columns = AllColumns
  /\ Start
  /\ animation_df = << >>
  /\ Idle

\* A page is opened on a file whose date and time cells may be empty or
\* may not parse.
LoaderInit ==
  /\ page \in Pages
  /\ csv \in FilesOf(RawPool, MaxRawRows)
  /\ columns = AllColumns
  /\ Start
  /\ animation_df = << >>
  /\ Idle

\* A page is opened on a file whose header may lack a column.
SchemaInit ==
  /\ page \in Pages
  /\ csv \in Files(MaxSchemaRows)
  /\ columns \in Headers
  /\ Start
  /\ animation_df = << >>
  /\ Idle

\* The Mapping page on an empty file; the function gets any number of hours.
BucketInit ==
  /\ page = "Mapping"
  /\ csv = << >>
  /\ columns = AllColumns
  /\ Start
  /\ animation_df = << >>
  /\ arg \in -MaxHours..MaxHours
  /\ result = None

BucketNext == TimeColorMapping

\* The Data Frame page; the selected years have any totals, every year one
\* event or more.
YearlyInit ==
  /\ page = "Data Frame"
  /\ csv = << >>
  /\ columns = AllColumns
  /\ Start
  /\ animation_df = << >>
  /\ arg \in UNION { [1..n -> 1..MaxTotal] : n \in 2..MaxYears }
  /\ result = None

YearlyNext == YearlySummary

\* The Data Frame page; the selected provinces have any number of events.
DensityInit ==
  /\ page = "Data Frame"
  /\ csv = << >>
  /\ columns = AllColumns
  /\ Start
  /\ animation_df = << >>
  /\ arg \in UNION { [1..n -> 0..MaxGroupSize] : n \in 0..MaxDensityProvinces }
  /\ result = None

DensityNext == KernelDensityEstimation

\* The Heatmaps page with a filtered table of any length; the rows are
\* known by their index labels.
RippleInit ==
  /\ page = "Heatmaps"
  /\ csv = << >>
  /\ columns = AllColumns
  /\ Start
  /\ Idle
  /\ animation_df \in { [k \in 1..n |-> k] : n \in 0..MaxAnimated }

RippleNext ==
  \/ RunRippleTab
  \/ StartRippleAnimation
  \/ AnimateEvent
  \/ CompleteRippleAnimation
  \/ StopRippleAnimation

PlottingInit == Init /\ page = "Plotting"

PlottingNext ==
  \/ LoadPlotting
  \/ PlottingFilters
  \/ PlottingView
  \/ StartAnimation
  \/ AddRows
  \/ AnimationComplete
  \/ ResetChart

\* The Data Frame page; a selected year has events in some months.
MonthlyInit ==
  /\ page = "Data Frame"
  /\ csv = << >>
  /\ columns = AllColumns
  /\ Start
  /\ animation_df = << >>
  /\ arg \in UNION { [1..n -> UNION { [1..m -> MetricValues] :
                                        m \in 1..MaxMonthEvents }] :
                       n \in 1..MaxMonths }
  /\ result = None

MonthlyNext == YearlyComparison

\* The loader of the page runs.
LoaderNext ==
  \/ ImportSeismicData
  \/ LoadHeatmaps
  \/ LoadDataFrame
  \/ LoadPlotting

MappingNext ==
  \/ ImportSeismicData
  \/ TemporalConnections
  \/ SidebarFilters
  \/ SequentialConnections

Next ==
  \/ MappingNext
  \/ LoadHeatmaps
  \/ HeatmapsFilters
  \/ HeatmapsView
  \/ LoadDataFrame
  \/ DataFrameFilters
  \/ TrendAnalysis
  \/ LoadPlotting
  \/ PlottingFilters
  \/ PlottingView

\* A visitor opens one of the pages.
Spec == Init /\ [][Next]_vars

MappingInit == Init /\ page = "Mapping"

\* A visitor opens the Mapping page.
MappingSpec == MappingInit /\ [][MappingNext]_vars

\* A visitor opens one of the pages on any file; the page loads it.
LoaderSpec == LoaderInit /\ [][LoaderNext]_vars

\* A visitor opens one of the pages on a file of any header.
SchemaSpec == SchemaInit /\ [][Next]_vars

\* time_color_mapping is applied to a number of hours.
BucketSpec == BucketInit /\ [][BucketNext]_vars

\* The yearly summary is computed for the totals of the selected years.
YearlySpec == YearlyInit /\ [][YearlyNext]_vars

\* The density plot is drawn for the selected provinces.
DensitySpec == DensityInit /\ [][DensityNext]_vars

\* A visitor watches the ripple animation of the Heatmaps page.
RippleSpec == RippleInit /\ [][RippleNext]_vars

\* A visitor opens the Plotting page and plays the animated chart.
PlottingSpec == PlottingInit /\ [][PlottingNext]_vars

\* The yearly comparison is computed for the months of a year.
MonthlySpec == MonthlyInit /\ [][MonthlyNext]_vars

\* ------------------------------------------------------------------------
\* Properties
\* ------------------------------------------------------------------------

\* The row of the file with identity i, as read.
Event(i) == seismic_time(read_csv(csv))[i]

\* The rows of table t whose province is g.
Group(t, g) == { i \in 1..Len(t) : t[i].PROVINCE = g }

\* C1. Sequencer group isolation: every row of sequential_data is linked to
\* an event of its own province; NEXT_LATITUDE, NEXT_LONGITUDE and NEXT_TIME
\* are that event's, whatever the file and the selection of regions.
C1_GroupIsolation ==
  \A i \in 1..Len(sequential_data) :
    LET r == sequential_data[i]
    IN  /\ r.NEXT_ID \in 1..Len(csv)
        /\ Event(r.NEXT_ID).PROVINCE = r.PROVINCE
        /\ r.NEXT_LATITUDE = Event(r.NEXT_ID).LATITUDE
        /\ r.NEXT_LONGITUDE = Event(r.NEXT_ID).LONGITUDE
        /\ r.NEXT_TIME = Event(r.NEXT_ID).TIME

\* A linked row whose successor in the whole table lies in another
\* province: the sequencer has linked it inside its own province instead.
C1_Witness ==
  /\ pc = "done"
  /\ \E i \in 1..Len(sequential_data), j \in 1..Len(seismic_data) :
       /\ seismic_data[j].id = sequential_data[i].id
       /\ Event(seismic_data[j].NEXT_ID).PROVINCE
            # sequential_data[i].PROVINCE
       /\ Event(sequential_data[i].NEXT_ID).PROVINCE
            = sequential_data[i].PROVINCE

\* C2. End-to-end scenario: the file (A, 2020-01-01, 5.0),
\* (A, 2020-01-02, 6.0), (B, 2020-01-01, 3.0), read without sampling and
\* with every filter left at its default, gives exactly one link, from
\* the first A event to the second, 24 hours apart, and none for B.
C2_Scenario ==
  ( /\ page = "Mapping" /\ pc = "done"
    /\ csv = << 1, 2, 3 >>
    /\ sample_percent = 100 /\ max_points = DefaultMaxRecords
    /\ filter_mode = "All Regions"
    /\ mag_range = mapping_defaults(seismic_data).mag
    /\ start_date = mapping_defaults(seismic_data).start
    /\ end_date = mapping_defaults(seismic_data).end )
  => /\ Len(sequential_data) = 1
     /\ sequential_data[1].id = 1
     /\ sequential_data[1].NEXT_ID = 2
     /\ sequential_data[1].PROVINCE = "A"
     /\ sequential_data[1].HOURS_BETWEEN = 24

\* C3. Sequencer completeness: a selected region with N filtered rows has
\* N-1 rows in sequential_data when N >= 2 and none when N < 2.
C3_Completeness ==
  pc = "done" =>
    \A k \in 1..Len(selected_regions) :
      LET N == Cardinality(Group(filtered_data, selected_regions[k]))
          links == Cardinality(Group(sequential_data, selected_regions[k]))
      IN  links = IF N >= 2 THEN N - 1 ELSE 0

\* A region with two or more filtered rows beside a region with one.
C3_Witness ==
  /\ pc = "done"
  /\ \E k, m \in 1..Len(selected_regions) :
       /\ Cardinality(Group(filtered_data, selected_regions[k])) >= 2
       /\ Cardinality(Group(sequential_data, selected_regions[k])) >= 1
       /\ Cardinality(Group(filtered_data, selected_regions[m])) = 1

\* C4. Sequencer ordering: in every row of sequential_data NEXT_TIME is not
\* before TIME, HOURS_BETWEEN is not negative, and HOURS_BETWEEN is the
\* seconds from TIME to NEXT_TIME divided by 3600.
C4_Ordering ==
  \A i \in 1..Len(sequential_data) :
    LET r == sequential_data[i]
    IN  /\ r.NEXT_TIME >= r.TIME
        /\ r.HOURS_BETWEEN >= 0
        /\ r.HOURS_BETWEEN * SecondsPerHour = r.NEXT_TIME - r.TIME

\* A link between two events that are hours apart.
C4_Witness ==
  /\ pc = "done"
  /\ \E i \in 1..Len(sequential_data) :
       /\ sequential_data[i].HOURS_BETWEEN > 0
       /\ sequential_data[i].NEXT_TIME > sequential_data[i].TIME


\* C5. Sampling bound: a sampler given more rows than its target returns at
\* most the target: import_seismic_data at most max_pts rows, the point
\* limiter of the Trend Analysis tab at most max_points rows per province.
C5_SamplingBound ==
  /\ (page = "Mapping" /\ pc = "loaded") => Len(seismic_data) <= max_points
  /\ (page = "Data Frame" /\ pc = "done" /\ limit_points) =>
       \A k \in 1..Len(province_data) :
         Len(province_data[k]) <= max_points

\* The cleaned table has no row twice and holds only rows of the file.
RowsOf(t, source) ==
  /\ \A i \in 1..Len(t) : \E j \in 1..Len(source) : t[i] = source[j]
  /\ Cardinality(Ids(t)) = Len(t)

\* C6. Sampling in import_seismic_data: the table returned has no more rows
\* than the cleaned table, only rows of the cleaned table, none of them
\* twice, and at most max_pts rows.
C6_Sampling ==
  (page = "Mapping" /\ pc = "loaded") =>
    /\ Len(seismic_data) <= total_count
    /\ total_count = Len(cleaned_seismic(csv))
    /\ RowsOf(seismic_data, cleaned_seismic(csv))
    /\ Len(seismic_data) <= max_points

\* Both samplings cut: the fraction leaves more than max_pts rows, the cap
\* brings them down to max_pts.
C6_Witness ==
  /\ page = "Mapping" /\ pc = "loaded"
  /\ sample_percent < 100
  /\ round(sample_percent * total_count, 100) < total_count
  /\ round(sample_percent * total_count, 100) > max_points
  /\ Len(seismic_data) = max_points

\* The rows the point limiter is given for the k-th selected province: the
\* filtered rows of the province within the magnitude range.
LimiterInput(k) ==
  LET InTrend(r) == /\ r.PROVINCE # NULL
                    /\ r.PROVINCE = selected_provinces[k]
                    /\ r.MAGNITUDE # NaN
                    /\ r.MAGNITUDE >= magnitude_range[1]
                    /\ r.MAGNITUDE <= magnitude_range[2]
  IN  SelectSeq(filtered_df, InTrend)

\* The per-province limiter leaves a table of at most max_points rows as
\* it is.
LimiterIdentity ==
  (page = "Data Frame" /\ pc = "done" /\ limit_points) =>
    \A k \in 1..Len(province_data) :
      max_points >= Len(LimiterInput(k)) =>
        /\ Ids(province_data[k]) = Ids(LimiterInput(k))
        /\ Len(province_data[k]) = Len(LimiterInput(k))

C8_Idempotence ==
  /\ (page = "Mapping" /\ pc = "filtered") =>
       mapping_filter(filtered_data, mag_range, selected_regions,
                      start_date, end_date) = filtered_data
  /\ (page = "Heatmaps" /\ pc = "filtered") =>
       heat_filter(filtered_df, heat_params) = filtered_df
  /\ (page = "Data Frame" /\ pc = "filtered") =>
       frame_filter(filtered_df, frame_params) = filtered_df
  /\ (page = "Plotting" /\ pc = "filtered") =>
       plot_filter(filtered_df, plot_params) = filtered_df

\* The epicenter reduction has kept the strongest of a province of two or
\* more rows, beside another province.
C8_Witness ==
  /\ page = "Heatmaps" /\ pc = "filtered"
  /\ selected_epicenter = "Province"
  /\ Len(filtered_df) >= 2
  /\ Len(filtered_df) < Len(df)
  /\ heat_filter(df, [heat_params EXCEPT !.epicenter = None]) # filtered_df

InDateRange(r) == start_date <= date(r.TIME) /\ date(r.TIME) <= end_date

\* A text cell equals the selected value (a missing cell equals nothing).
Matches(v, selected) == v # NULL /\ v = selected

\* C9. Filter composition: the filtered table holds exactly the rows that
\* satisfy every specified predicate, and an unspecified dimension does not
\* restrict: with "All Regions" on the Mapping page no row is left out for
\* its PROVINCE, a missing one included.
C9_Composition ==
  /\ (page = "Mapping" /\ pc = "filtered") =>
       LET Keep(r) ==
             /\ mag_range[1] <= r.MAGNITUDE /\ r.MAGNITUDE <= mag_range[2]
             /\ InDateRange(r)
             /\ filter_mode = "Select Specific Regions" =>
                  isin(r.PROVINCE, selected_regions)
       IN  Ids(filtered_data) = Ids(SelectSeq(seismic_data, Keep))
  /\ (page = "Heatmaps" /\ pc = "filtered" /\ selected_epicenter = None) =>
       LET Keep(r) ==
             /\ selected_area # None => Matches(r.AREA, selected_area)
             /\ selected_province # None => Matches(r.PROVINCE, selected_province)
             /\ InDateRange(r)
             /\ magnitude_range[1] <= r.MAGNITUDE
             /\ r.MAGNITUDE <= magnitude_range[2]
             /\ r.CATEGORY \in selected_categories
       IN  Ids(filtered_df) = Ids(SelectSeq(df, Keep))
  /\ (page = "Plotting" /\ pc = "filtered") =>
       LET Keep(r) ==
             /\ InDateRange(r)
             /\ selected_province # All => Matches(r.PROVINCE, selected_province)
             /\ selected_area # All => Matches(r.AREA, selected_area)
       IN  Ids(filtered_df) = Ids(SelectSeq(df, Keep))

\* C10. Inclusive ranges: among the rows that pass the other predicates, a
\* row is kept exactly when its calendar day lies in
\* start_date..end_date, whatever its time of day, and its magnitude in
\* the slider's range, both ends included.
C10_InclusiveRanges ==
  /\ (page = "Mapping" /\ pc = "filtered") =>
       \A i \in 1..Len(seismic_data) :
         LET r == seismic_data[i]
         IN  isin(r.PROVINCE, selected_regions) =>
               ( r.id \in Ids(filtered_data)
                 <=> /\ InDateRange(r)
                     /\ mag_range[1] <= r.MAGNITUDE
                     /\ r.MAGNITUDE <= mag_range[2] )
  /\ (page = "Heatmaps" /\ pc = "filtered" /\ selected_epicenter = None) =>
       \A i \in 1..Len(df) :
         LET r == df[i]
         IN  ( /\ selected_area # None => Matches(r.AREA, selected_area)
               /\ selected_province # None => Matches(r.PROVINCE, selected_province)
               /\ r.CATEGORY \in selected_categories ) =>
               ( r.id \in Ids(filtered_df)
                 <=> /\ InDateRange(r)
                     /\ magnitude_range[1] <= r.MAGNITUDE
                     /\ r.MAGNITUDE <= magnitude_range[2] )
  /\ (page = "Plotting" /\ pc = "filtered") =>
       \A i \in 1..Len(df) :
         LET r == df[i]
         IN  ( /\ selected_province # All => Matches(r.PROVINCE, selected_province)
               /\ selected_area # All => Matches(r.AREA, selected_area) ) =>
               ( r.id \in Ids(filtered_df) <=> InDateRange(r) )

\* A row at noon of end_date, of the slider's lowest magnitude, is kept
\* while another row is left out.
C10_Witness ==
  /\ page = "Mapping" /\ pc = "filtered"
  /\ \E i \in 1..Len(filtered_data) :
       /\ date(filtered_data[i].TIME) = end_date
       /\ filtered_data[i].TIME % SecondsPerDay # 0
       /\ filtered_data[i].MAGNITUDE = mag_range[1]
  /\ \E i \in 1..Len(seismic_data) :
       /\ isin(seismic_data[i].PROVINCE, selected_regions)
       /\ seismic_data[i].id \notin Ids(filtered_data)

\* The filtered table of the page that is running.
Filtered == IF page = "Mapping" THEN filtered_data ELSE filtered_df

Loaded == IF page = "Mapping" THEN seismic_data ELSE df

\* C12. Loader invariant: every row of the table a page's loader returns has
\* a timestamp, a latitude, a longitude and a magnitude that are not null.
C12_LoaderInvariant ==
  pc = "loaded" =>
    \A i \in 1..Len(Loaded) :
      /\ Loaded[i].TIME # NaN
      /\ Loaded[i].LATITUDE # NaN
      /\ Loaded[i].LONGITUDE # NaN
      /\ Loaded[i].MAGNITUDE # NaN

\* C13. Timestamp derivation: on the pages whose loader concatenates DATE and
\* TIME (Plotting, Data Frame, Mapping), a line with a valid date and an
\* empty time is kept, with the timestamp of midnight of that date.
C13_MidnightDefault ==
  ( /\ pc = "loaded"
    /\ page \in {"Plotting", "Data Frame", "Mapping"}
    /\ page = "Mapping" => Len(seismic_data) = total_count ) =>
    \A i \in 1..Len(csv) :
      ( /\ RawPool[csv[i]].DATE # NaN
        /\ RawPool[csv[i]].CLOCK = NaN
        /\ RawPool[csv[i]].MAGNITUDE # NaN ) =>
        \E j \in 1..Len(Loaded) :
          /\ Loaded[j].id = i
          /\ Loaded[j].TIME = RawPool[csv[i]].DATE * SecondsPerDay

\* The columns a page reads without testing for them: a file that lacks one
\* cannot be shown (Mapping: lines 123, 252; Plotting: 107, 133, 156, 163;
\* Data Frame: 77, 105; Heatmaps: 105).
used_columns ==
  CASE page = "Mapping" -> needed_columns \cup {"PROVINCE"}
    [] page = "Plotting" -> {"DATE", "MAGNITUDE", "PROVINCE", "AREA"}
    [] page = "Data Frame" -> {"DATE", "MAGNITUDE", "PROVINCE"}
    [] page = "Heatmaps" -> required_heatmaps

\* C14: on a file that lacks a column the page uses as required, the load
\* fails as a whole: the page goes no further than its loader, which
\* reports an error naming missing columns; no table is loaded and no
\* filter, sequencing or rendering stage runs.
C14_SchemaAllOrNothing ==
  (used_columns \ columns # {}) =>
     /\ pc \in {"start", "stopped", "exception"}
     /\ pc # "start" => (error # {} /\ error \subseteq AllColumns \ columns)
     /\ seismic_data = << >> /\ df = << >>

\* C15: on the Mapping page, a table left with no rows by the cleaning is
\* reported to the visitor and the page halts: the step after the loader
\* stops the script, and raises no exception.
C15_EmptyAfterParsing ==
  [][ (page = "Mapping" /\ pc = "loaded" /\ total_count = 0) =>
        pc' = "stopped" ]_vars

\* The colors of time_color_mapping, from the lowest bucket to the highest.
BucketColors == << "blue", "green", "orange" >>

\* C16: time_color_mapping gives one of its three colors for every number
\* of hours; a negative number gets the color of the lowest bucket and a
\* number of 24 or more, however large, the color of the highest.
C16_BucketTotality ==
  pc = "applied" =>
    /\ \E k \in 1..Len(BucketColors) : result = BucketColors[k]
    /\ arg < 0 => result = BucketColors[1]
    /\ arg >= 24 => result = BucketColors[Len(BucketColors)]

C16_Witness == pc = "applied" /\ result = BucketColors[1] /\ arg < 0

\* C17: every row of the monthly statistics has Count equal to the number
\* of events of its (province, year-month) group, Average equal to their
\* arithmetic mean, and Maximum and Minimum equal to the largest and the
\* smallest magnitude of the group.
C17_AggregatorCorrectness ==
  \A row \in monthly_stats :
    LET events == group_rows(filtered_df, row.Province, row.YearMonth)
        magnitudes == { events[i].MAGNITUDE : i \in 1..Len(events) }
    IN  /\ row.stats.Count = Len(events)
        /\ row.stats.Average # NaNFraction
        /\ row.stats.Average.num * Len(events) =
             row.stats.Average.den *
               Sum([i \in 1..Len(events) |-> events[i].MAGNITUDE])
        /\ row.stats.Maximum \in magnitudes
        /\ \A m \in magnitudes : m <= row.stats.Maximum
        /\ row.stats.Minimum \in magnitudes
        /\ \A m \in magnitudes : row.stats.Minimum <= m

\* C18: a row of the monthly statistics for a group of exactly one event
\* has a standard deviation of zero: it is never NaN.
C18_SingleElementStd ==
  \A row \in monthly_stats :
    Len(group_rows(filtered_df, row.Province, row.YearMonth)) = 1 =>
      /\ row.stats.StdDev # NaNFraction
      /\ row.stats.StdDev.num = 0

\* C19: in the yearly summary of two years or more, "% Change in Count" of
\* the earliest year is "N/A", and of every later year the change from the
\* year before, (count - previous) / previous * 100, to one decimal and with
\* its sign; the totals 10 and 15 give "+50.0%" for the second year.
C19_PercentChange ==
  pc = "applied" =>
    /\ Len(result) = Len(arg)
    /\ result[1] = << "N/A" >>
    /\ \A k \in 2..Len(arg) :
         LET change == 1000 * (arg[k] - arg[k - 1])
             signed == IF result[k][1] = "-" THEN -result[k][2]
                       ELSE result[k][2]
         IN  /\ Len(result[k]) = 2
             /\ result[k][1] = (IF change < 0 THEN "-" ELSE "+")
             /\ 2 * signed * arg[k - 1] - 2 * change <= arg[k - 1]
             /\ 2 * change - 2 * signed * arg[k - 1] <= arg[k - 1]
    /\ arg = << 10, 15 >> => result[2] = << "+", 500 >>

C19_Witness ==
  /\ pc = "applied"
  /\ arg = << 10, 15 >>
  /\ result = << << "N/A" >>, << "+", 500 >> >>

\* The position in table t of the row with index label id.
Position(t, id) == CHOOSE i \in 1..Len(t) : t[i].id = id

\* C20: the time sort of the sequencer is stable: a link between two events
\* of one province with equal timestamps goes from the one that comes first
\* in the table given to the sequencer to the one that comes after it, so
\* the links are determined by that table.
C20_StableTimeSort ==
  pc = "done" =>
    \A k \in 1..Len(sequential_data) :
      sequential_data[k].NEXT_TIME = sequential_data[k].TIME =>
        Position(filtered_data, sequential_data[k].id) <
          Position(filtered_data, sequential_data[k].NEXT_ID)

\* C21: the filters run before the sampling: until the sidebar filters of
\* the Mapping page are applied, the table is the whole cleaned table, and
\* no row has been sampled away.
C21_FilterBeforeSampling ==
  (page = "Mapping" /\ pc = "loaded") =>
     Ids(seismic_data) = Ids(cleaned_seismic(csv))

C23_DensityGroupSize ==
  pc = "applied" =>
    \A k \in 1..Len(arg) :
      (\E j \in 1..Len(result) : result[j] = k) <=> arg[k] >= 5

\* C24: filtered_data of the Mapping page holds every event of the loaded
\* table that satisfies the magnitude, region and date predicates, the event
\* without a chronological successor included; stated for a load that
\* samples nothing, where the loaded table is the cleaned file.
C24_FilteredKeepsLastEvent ==
  ( /\ page = "Mapping" /\ pc = "filtered"
    /\ sample_percent = 100 /\ total_count <= max_points ) =>
     LET loaded == cleaned_seismic(csv)
     IN  \A i \in 1..Len(loaded) :
           ( /\ mag_range[1] <= loaded[i].MAGNITUDE
             /\ loaded[i].MAGNITUDE <= mag_range[2]
             /\ isin(loaded[i].PROVINCE, selected_regions)
             /\ InDateRange(loaded[i]) ) =>
             loaded[i].id \in Ids(filtered_data)

\* C25: when import_seismic_data finds required columns missing, the Mapping
\* page halts through the "seismic_data is None" test and st.stop(): the
\* script stops, and no exception is raised on the way.
C25_HaltsOnNone ==
  (page = "Mapping" /\ ~ (needed_columns \subseteq columns)) =>
     pc \in {"start", "stopped"}

\* C26: every frame of the ripple animation shows at most MAX_DISPLAYED =
\* min(10, number of events) earthquakes, and they are the most recent
\* events handled so far, in the order they were handled, the last one being
\* the current event.
C26_RippleWindow ==
  map_container = "frame" =>
    LET m == Min({MAX_DISPLAYED(animation_df), event_index})
    IN  /\ Len(displayed_earthquakes) <= Min({10, Len(animation_df)})
        /\ event_index >= 1
        /\ displayed_earthquakes =
             [k \in 1..m |-> animation_df[event_index - m + k]]

C26_Witness ==
  /\ map_container = "frame"
  /\ event_index > 10
  /\ Len(displayed_earthquakes) = 10

\* C27: the static map is shown whenever no animation is running: once an
\* animation has run through all events, animate_ripple is False again and
\* the static map is drawn; and no frame is drawn while the flag is False.
C27_FlagResets ==
  /\ (pc = "idle" /\ Len(animation_df) > 0) => map_container = "static"
  /\ (pc = "idle" /\ Len(animation_df) > 0
        /\ event_index = Len(animation_df)) => ~ animate_ripple
  /\ ~ animate_ripple => map_container # "frame"

\* C28: while animate_chart runs the progress is the share of the rows that
\* are in the chart, never above 1, and the progress bar is full whenever
\* the status text reads 100%; when it has finished, the chart holds the
\* rows of the filtered table, each once, in ascending DATETIME order.
C28_ChartAnimation ==
  (page = "Plotting" /\ pc \in {"animating", "animated"}) =>
     /\ progress_bar.num <= progress_bar.den
     /\ Len(chart) >= 2 =>
          progress_bar.num * Len(filtered_df) = progress_bar.den * Len(chart)
     /\ status_text = 100 => progress_bar.num = progress_bar.den
     /\ pc = "animated" =>
          /\ chart = filtered_df
          /\ Cardinality(Ids(chart)) = Len(chart)
          /\ \A k \in 1..(Len(chart) - 1) : chart[k].TIME <= chart[k + 1].TIME

\* The events of filtered_df that are shown for a province: its own events
\* within the selected magnitude range.
OwnShown(province) ==
  LET Shown(r) == /\ r.PROVINCE = province
                  /\ r.MAGNITUDE # NaN
                  /\ magnitude_range[1] <= r.MAGNITUDE
                  /\ r.MAGNITUDE <= magnitude_range[2]
  IN  SelectSeq(filtered_df, Shown)

\* C29: the "(Avg)" line of a province is the rolling mean, over the window
\* of days, of the events shown for that province: at each of its points the
\* mean of the province's own events within the magnitude range whose time
\* lies in the window that ends at the point.
C29_RollingAveragePerProvince ==
  (page = "Data Frame" /\ pc = "done") =>
    \A k \in 1..Len(province_data) :
      \A i \in 1..Len(province_data[k]) :
        LET r == province_data[k][i]
            InWindow(q) == /\ q.TIME <= r.TIME
                           /\ q.TIME > r.TIME - rolling_window * SecondsPerDay
            own == mean(SelectSeq(OwnShown(selected_provinces[k]), InWindow))
        IN  r.Rolling_Avg.num * own.den = own.num * r.Rolling_Avg.den

\* C30: for a selected year whose events all have a value of the selected
\* metric, the "Average Magnitude" of the yearly comparison table is the sum
\* of the values of all events of the year divided by "Total Earthquakes",
\* however the events are spread over the months.
C30_YearlyMean ==
  LET NotNa(x) == x # NaN
      Complete(cells) == SelectSeq(cells, NotNa) = cells
      values == Sum([k \in 1..Len(arg) |-> Sum(arg[k])])
  IN  (pc = "applied" /\ \A k \in 1..Len(arg) : Complete(arg[k])) =>
        result.Average_Magnitude.num * result.Total_Earthquakes
          = values * result.Average_Magnitude.den

============================================================================
